---- MODULE Spec2Model ----
(***************************************************************************)
(* State-machine model of the volleyball training record keeper (app.py):  *)
(* a Streamlit script over one SQLite file.  Every script run starts with  *)
(* init_db_if_needed(); a button click runs exactly one handler.  The      *)
(* store is the record db (one field per table); each exec_one call is one *)
(* committed SQL statement.                                                *)
(*                                                                         *)
(* schema.sql and seed_data.sql are read by the code but are not part of   *)
(* the source tree: the constraints they declare (composite keys, foreign  *)
(* keys) and the seed rows are modelled from the specification, and what   *)
(* the specification leaves open is the record schema, chosen              *)
(* nondeterministically in Init and never changed.                         *)
(*                                                                         *)
(* Attendance statuses: "present" = 出席, "excused" = 請假, "late" = 遲到, *)
(* "absent" = 缺席.                                                        *)
(***************************************************************************)
EXTENDS Integers, FiniteSets, Sequences, TLC

\* ---------------------------------------------------------------- bounds
\* success_count and total_count entered in the result editor: 0..MaxCount
MaxCount == 2
\* number of drill_results rows the store may hold (row identities 1..MaxResults)
MaxResults == 1
\* largest player_id / drill_id the store hands out to a row the coach adds
MaxId == 0
\* sequence_no values offered by the flow form: 1..MaxSeq
MaxSeq == 2
\* the batch form's dates: day 0 .. day MaxDay
MaxDay == 2
\* number of sessions rows the store may hold
MaxSessions == 2

VARIABLES
    db_file,    \* os.path.exists(DB_PATH)
    db,         \* the tables of the SQLite file
    schema,     \* what schema.sql declares where the specification leaves it open
    ui          \* the handler that ran last: what was submitted, what it answered

vars == <<db_file, db, schema, ui>>

\* ---------------------------------------------------------------- domains
STATUS == {"present", "excused", "late", "absent"}
MAIN_CATS == {"pass", "serve"}
Counts == 0..MaxCount
Minutes == {20}
\* two of the four phase labels of the batch form
PHASES == {"base", "peak"}

\* A calendar date is its number of days after 2025-01-01, a Wednesday; 2025
\* and 2026 have 365 days each, so within them the day of the year stands
\* for the month and day of the date.
DaysPerYear == 52 * 7 + 1
Days == 0..MaxDay
\* date.weekday(): Monday is 0
Weekday(date) == (date + 2) % 7
\* strftime('%m/%d', date)
MonthDay(date) == date % DaysPerYear

Max(S) == IF S = {} THEN 0 ELSE CHOOSE m \in S : \A x \in S : x <= m
Min(S) == CHOOSE m \in S : \A x \in S : m <= x

\* a set of integers as the ascending sequence Python iterates it in
RECURSIVE SortedSeq(_)
SortedSeq(S) ==
    IF S = {} THEN <<>> ELSE <<Min(S)>> \o SortedSeq(S \ {Min(S)})

\* ---------------------------------------------------------------- schema
EmptyDb ==
    [has_schema |-> FALSE, players |-> {}, drills |-> {}, sessions |-> {},
     session_drills |-> {}, attendance |-> {}, drill_results |-> {}]

\* schema.sql: what the specification leaves open
SchemaChoices ==
    [on_delete : {"CASCADE", "RESTRICT"}, results_unique : BOOLEAN,
     name_check : BOOLEAN]

\* the text left of a name when white space is stripped from both ends: among
\* the names of the model only " " changes
Trim(name) == IF name = " " THEN "" ELSE name

\* schema.sql is CREATE ... IF NOT EXISTS: it creates the tables and keeps the rows
ApplySchema(d) == [d EXCEPT !.has_schema = TRUE]

\* composite keys schema.sql declares
SessionDrillKey(r) == <<r.session_id, r.drill_id>>
AttendanceKey(r) == <<r.session_id, r.player_id>>
ResultKey(r) == <<r.session_id, r.drill_id, r.player_id>>

\* seed_data.sql: three INSERT statements
SeedPlayers ==
    {[player_id |-> 1, name |-> "A"], [player_id |-> 2, name |-> "B"]}
SeedDrills ==
    {[drill_id |-> 1, drill_name |-> "d1", category |-> "pass", is_hidden |-> FALSE],
     [drill_id |-> 2, drill_name |-> "d2", category |-> "serve", is_hidden |-> FALSE]}
SeedSessions ==
    {[session_id |-> 1, session_date |-> 0, phase |-> "base"],
     [session_id |-> 2, session_date |-> 1, phase |-> "base"]}
SeedScript == <<"players", "drills", "sessions">>

ApplySeedStmt(d, stmt) ==
    CASE stmt = "players" -> [d EXCEPT !.players = @ \cup SeedPlayers]
      [] stmt = "drills" -> [d EXCEPT !.drills = @ \cup SeedDrills]
      [] stmt = "sessions" -> [d EXCEPT !.sessions = @ \cup SeedSessions]

\* the first k statements of seed_data.sql, each committed as it runs
RECURSIVE ApplySeedPrefix(_, _)
ApplySeedPrefix(d, k) ==
    IF k = 0 THEN d ELSE ApplySeedStmt(ApplySeedPrefix(d, k - 1), SeedScript[k])

SeededDb == ApplySeedPrefix(ApplySchema(EmptyDb), Len(SeedScript))

\* ---------------------------------------------------------------- connect
\* connect(): PRAGMA foreign_keys = ON
foreign_keys_off == FALSE
foreign_keys == TRUE

PlayerIds(d) == {p.player_id : p \in d.players}
DrillIds(d) == {x.drill_id : x \in d.drills}
SessionIds(d) == {s.session_id : s \in d.sessions}
DrillOf(d, did) == CHOOSE x \in d.drills : x.drill_id = did

\* ---------------------------------------------------------------- statements
\* Every statement yields [ok, db]: ok = FALSE is the sqlite3 exception, and the
\* store is then the one before the statement.
Done(d) == [ok |-> TRUE, db |-> d]
Raise(d) == [ok |-> FALSE, db |-> d]

\* DELETE FROM players WHERE player_id = ?
DeletePlayer(d, sch, pid) ==
    LET att == {r \in d.attendance : r.player_id = pid}
        res == {r \in d.drill_results : r.player_id = pid}
        gone == [d EXCEPT !.players = {p \in @ : p.player_id # pid}]
    IN  IF ~foreign_keys THEN Done(gone)
        ELSE IF sch.on_delete = "CASCADE"
             THEN Done([gone EXCEPT !.attendance = @ \ att,
                                    !.drill_results = @ \ res])
        ELSE IF att \cup res # {} THEN Raise(d)
        ELSE Done(gone)

\* INSERT INTO players (name, ...) VALUES (?, ...)
InsertPlayer(d, name) ==
    LET id == Max(PlayerIds(d)) + 1
    IN  Done([d EXCEPT !.players = @ \cup {[player_id |-> id, name |-> name]}])

\* UPDATE players SET name = ?, ... WHERE player_id = ?
UpdatePlayer(d, pid, name) ==
    Done([d EXCEPT !.players =
            {IF p.player_id = pid THEN [p EXCEPT !.name = name] ELSE p : p \in @}])

\* DELETE FROM sessions WHERE session_id = ?
DeleteSession(d, sch, sid) ==
    LET sd == {r \in d.session_drills : r.session_id = sid}
        att == {r \in d.attendance : r.session_id = sid}
        res == {r \in d.drill_results : r.session_id = sid}
        gone == [d EXCEPT !.sessions = {s \in @ : s.session_id # sid}]
    IN  IF ~foreign_keys THEN Done(gone)
        ELSE IF sch.on_delete = "CASCADE"
             THEN Done([gone EXCEPT !.session_drills = @ \ sd,
                                    !.attendance = @ \ att,
                                    !.drill_results = @ \ res])
        ELSE IF sd \cup att \cup res # {} THEN Raise(d)
        ELSE Done(gone)

\* INSERT INTO sessions (session_date, theme, phase, target_duration) VALUES (...)
InsertSession(d, date, phase) ==
    LET id == Max(SessionIds(d)) + 1
    IN  Done([d EXCEPT !.sessions = @ \cup
                {[session_id |-> id, session_date |-> date, phase |-> phase]}])

\* DELETE FROM drills WHERE drill_id = ?
DeleteDrill(d, sch, did) ==
    LET sd == {r \in d.session_drills : r.drill_id = did}
        res == {r \in d.drill_results : r.drill_id = did}
        gone == [d EXCEPT !.drills = {x \in @ : x.drill_id # did}]
    IN  IF ~foreign_keys THEN Done(gone)
        ELSE IF sch.on_delete = "CASCADE"
             THEN Done([gone EXCEPT !.session_drills = @ \ sd,
                                    !.drill_results = @ \ res])
        ELSE IF sd \cup res # {} THEN Raise(d)
        ELSE Done(gone)

\* INSERT INTO drills (drill_name, category, ..., is_hidden) VALUES (...)
InsertDrill(d, sch, row) ==
    LET id == Max(DrillIds(d)) + 1
    IN  IF sch.name_check /\ Trim(row.drill_name) = "" THEN Raise(d)
        ELSE Done([d EXCEPT !.drills = @ \cup
                {[drill_id |-> id, drill_name |-> row.drill_name,
                  category |-> row.category, is_hidden |-> row.is_hidden]}])

\* UPDATE drills SET drill_name=?, category=?, ..., is_hidden=? WHERE drill_id=?
UpdateDrill(d, sch, row) ==
    IF sch.name_check /\ Trim(row.drill_name) = "" THEN Raise(d)
    ELSE Done([d EXCEPT !.drills =
            {IF x.drill_id = row.drill_id
             THEN [drill_id |-> x.drill_id, drill_name |-> row.drill_name,
                   category |-> row.category, is_hidden |-> row.is_hidden]
             ELSE x : x \in @}])

\* INSERT OR REPLACE INTO attendance (session_id, player_id, status) VALUES (?,?,?)
UpsertAttendance(d, sid, pid, stat) ==
    LET row == [session_id |-> sid, player_id |-> pid, status |-> stat]
    IN  IF foreign_keys /\ ~(sid \in SessionIds(d) /\ pid \in PlayerIds(d))
        THEN Raise(d)
        ELSE Done([d EXCEPT !.attendance =
                {r \in @ : AttendanceKey(r) # AttendanceKey(row)} \cup {row}])

\* INSERT OR REPLACE INTO session_drills (session_id, drill_id, sequence_no,
\* planned_minutes, planned_reps) VALUES (?,?,?,?,?)
UpsertSessionDrillIgnore(d, sid, did, seq, mins) ==
    LET row == [session_id |-> sid, drill_id |-> did, sequence_no |-> seq,
                planned_minutes |-> mins]
    IN  IF \E r \in d.session_drills : SessionDrillKey(r) = SessionDrillKey(row)
        THEN Done(d)
        ELSE Done([d EXCEPT !.session_drills = @ \cup {row}])
UpsertSessionDrill(d, sid, did, seq, mins) ==
    LET row == [session_id |-> sid, drill_id |-> did, sequence_no |-> seq,
                planned_minutes |-> mins]
    IN  IF foreign_keys /\ ~(sid \in SessionIds(d) /\ did \in DrillIds(d))
        THEN Raise(d)
        ELSE Done([d EXCEPT !.session_drills =
                {r \in @ : SessionDrillKey(r) # SessionDrillKey(row)} \cup {row}])

\* DELETE FROM session_drills WHERE session_id=?
DeleteSessionDrills(d, sid) ==
    Done([d EXCEPT !.session_drills = {r \in @ : r.session_id # sid}])

\* INSERT INTO session_drills (...) VALUES (?,?,?,?,?): a second row for the
\* same (session, drill) violates the composite key and raises
InsertSessionDrill(d, sid, did, seq, mins) ==
    LET row == [session_id |-> sid, drill_id |-> did, sequence_no |-> seq,
                planned_minutes |-> mins]
    IN  IF \E r \in d.session_drills : SessionDrillKey(r) = SessionDrillKey(row)
        THEN Raise(d)
        ELSE IF foreign_keys /\ ~(sid \in SessionIds(d) /\ did \in DrillIds(d))
        THEN Raise(d)
        ELSE Done([d EXCEPT !.session_drills = @ \cup {row}])

\* the identity the store gives a new drill_results row: the code never reads
\* result_id, so any unused one stands for it
FreeResultIds(d) == (1..MaxResults) \ {r.result_id : r \in d.drill_results}

\* INSERT OR REPLACE INTO drill_results (session_id, drill_id, player_id,
\* success_count, total_count, ...) VALUES (...): the row replaces the rows it
\* conflicts with, which are those of its (session, drill, player) when
\* schema.sql declares that key unique, and none otherwise
UpsertResult(d, sch, sid, did, pid, s, t) ==
    LET old == IF sch.results_unique
               THEN {r \in d.drill_results : ResultKey(r) = <<sid, did, pid>>}
               ELSE {}
        kept == [d EXCEPT !.drill_results = @ \ old]
        row == [result_id |-> Min(FreeResultIds(kept)), session_id |-> sid,
                drill_id |-> did, player_id |-> pid,
                success_count |-> s, total_count |-> t]
    IN  IF foreign_keys /\ ~(sid \in SessionIds(d) /\ did \in DrillIds(d)
                             /\ pid \in PlayerIds(d))
        THEN Raise(d)
        ELSE IF FreeResultIds(kept) = {} THEN Raise(d)
        ELSE Done([kept EXCEPT !.drill_results = @ \cup {row}])

\* exec_one(con, query, params): one statement, committed
exec_one(d, sch, st) ==
    CASE st.op = "delete_player" -> DeletePlayer(d, sch, st.id)
      [] st.op = "insert_player" -> InsertPlayer(d, st.name)
      [] st.op = "update_player" -> UpdatePlayer(d, st.id, st.name)
      [] st.op = "delete_session" -> DeleteSession(d, sch, st.id)
      [] st.op = "insert_session" -> InsertSession(d, st.date, st.phase)
      [] st.op = "delete_drill" -> DeleteDrill(d, sch, st.id)
      [] st.op = "insert_drill" -> InsertDrill(d, sch, st.row)
      [] st.op = "update_drill" -> UpdateDrill(d, sch, st.row)
      [] st.op = "upsert_attendance" ->
            UpsertAttendance(d, st.sid, st.pid, st.status)
      [] st.op = "upsert_session_drill" ->
            UpsertSessionDrill(d, st.sid, st.did, st.seq, st.mins)
      [] st.op = "delete_session_drills" -> DeleteSessionDrills(d, st.sid)
      [] st.op = "insert_session_drill" ->
            InsertSessionDrill(d, st.sid, st.did, st.seq, st.mins)
      [] st.op = "upsert_result" ->
            UpsertResult(d, sch, st.sid, st.did, st.pid, st.s, st.t)

\* a handler's statements in order; the first exception ends the handler and
\* leaves the statements before it committed
RECURSIVE RunAll(_, _, _)
RunAll(d, sch, stmts) ==
    IF stmts = <<>> THEN Done(d)
    ELSE LET r == exec_one(d, sch, Head(stmts))
         IN  IF r.ok THEN RunAll(r.db, sch, Tail(stmts)) ELSE r

\* ---------------------------------------------------------------- crash
\* exec_one is con.execute(query) followed by con.commit().  A statement that
\* is cut short leaves one of these stores on disk (never used by a handler
\* that runs to its end): the row it replaces or the parent row it deletes is
\* gone while the rest of its effect is missing.
Torn(d, st) ==
    CASE st.op = "upsert_attendance" ->
            [d EXCEPT !.attendance =
                {r \in @ : AttendanceKey(r) # <<st.sid, st.pid>>}]
      [] st.op = "delete_player" ->
            [d EXCEPT !.players = {p \in @ : p.player_id # st.id}]
      [] st.op = "delete_drill" ->
            [d EXCEPT !.drills = {x \in @ : x.drill_id # st.id}]
      [] st.op = "delete_session_drills" ->
            [d EXCEPT !.session_drills =
                {r \in @ : r.session_id # st.sid
                           \/ r.drill_id # Min({q.drill_id : q \in
                                {x \in d.session_drills : x.session_id = st.sid}})}]
      [] OTHER -> d

InterruptedTorn(d, sch, st) == {d, exec_one(d, sch, st).db, Torn(d, st)}

\* the stores the file can hold when the process dies inside exec_one: SQLite
\* applies a statement whole or not at all, and what was executed but not
\* yet committed is rolled back when the file is opened again
Interrupted(d, sch, st) == {d, exec_one(d, sch, st).db}

\* the stores the file can hold when the process dies during a handler that
\* issues stmts: some statements ran and committed, the next was interrupted
Crashes(d, sch, stmts) ==
    UNION {LET r == RunAll(d, sch, SubSeq(stmts, 1, k))
           IN  IF r.ok /\ k < Len(stmts)
               THEN Interrupted(r.db, sch, stmts[k + 1])
               ELSE {r.db} : k \in 0..Len(stmts)}

\* ---------------------------------------------------------------- feedback
\* op: the handler; ok: FALSE when it showed an error or raised; errors: the
\* players named in the result form's error; rows: the number of rows of the
\* result form; arg: the rows submitted; replaced: a row with a submitted
\* key and other values was stored before; stmts: the statements of a
\* handler during which the process died
Feedback(op, ok) ==
    [op |-> op, ok |-> ok, errors |-> <<>>, rows |-> 0, arg |-> {},
     replaced |-> FALSE, stmts |-> <<>>, sel |-> <<>>]

\* the process dies while a handler issues stmts
Crash(d, stmts) ==
    /\ ui.op # "crash"
    /\ db_file' = TRUE
    /\ db' \in Crashes(d, schema, stmts)
    /\ ui' = [Feedback("crash", FALSE) EXCEPT !.stmts = stmts]
    /\ UNCHANGED schema

\* ---------------------------------------------------------------- start-up
\* fresh = not os.path.exists(DB_PATH)
InitFreshAlways(exists) == TRUE
InitFresh(exists) == ~exists

\* init_db_if_needed(): connect() creates the file; the schema script always
\* runs; the seed script runs only on a fresh store
init_db_if_needed(exists, d) ==
    IF InitFresh(exists)
    THEN ApplySeedPrefix(ApplySchema(d), Len(SeedScript))
    ELSE ApplySchema(d)

\* the store a script run works on: line 72 runs before any handler
Started == init_db_if_needed(db_file, db)

\* a script run with no button pressed
InitDbRun ==
    /\ db_file' = TRUE
    /\ db' = Started
    /\ ui' = Feedback("init", TRUE)
    /\ UNCHANGED schema

\* ---------------------------------------------------------------- reset
\* where reset_to_seed() may raise: os.remove ("remove"), the schema script
\* ("schema"), the seed script after k of its statements ("seed"), or nowhere
ResetFailures ==
    {[at |-> "none", k |-> 0], [at |-> "remove", k |-> 0],
     [at |-> "schema", k |-> 0]}
    \cup {[at |-> "seed", k |-> k] : k \in 0..(Len(SeedScript) - 1)}

\* reset_to_seed(): [ok, db]; the file exists afterwards in every case, since
\* connect() recreates it right after os.remove
reset_to_seed(d, fail) ==
    CASE fail.at = "remove" -> Raise(d)
      [] fail.at = "schema" -> Raise(EmptyDb)
      [] fail.at = "seed" -> Raise(ApplySeedPrefix(ApplySchema(EmptyDb), fail.k))
      [] fail.at = "none" ->
            Done(ApplySeedPrefix(ApplySchema(EmptyDb), Len(SeedScript)))

\* sidebar button
ResetToSeedClick ==
    \E fail \in ResetFailures :
        \E r \in {reset_to_seed(Started, fail)} :
            /\ db_file' = TRUE
            /\ db' = r.db
            /\ ui' = Feedback("reset", r.ok)
            /\ UNCHANGED schema

\* ---------------------------------------------------------------- tab 1
\* the rows of the players table as the sequence the editor shows; the model
\* keeps no jersey_number, the ids stand for the ORDER BY of line 132
RECURSIVE RowsById(_, _)
RowsById(rows, ids) ==
    IF ids = <<>> THEN <<>>
    ELSE <<CHOOSE r \in rows : r.player_id = Head(ids)>> \o RowsById(rows, Tail(ids))

\* one statement per editor row: rows with a blank name are skipped, rows
\* without an id (player_id = 0 stands for NaN) are inserted, the rest updated
RECURSIVE PlayerRowStmts(_)
PlayerRowStmts(rows) ==
    IF rows = <<>> THEN <<>>
    ELSE LET row == Head(rows)
             st == IF row.name = "" THEN <<>>
                   ELSE IF row.player_id = 0
                   THEN <<[op |-> "insert_player", name |-> row.name]>>
                   ELSE <<[op |-> "update_player", id |-> row.player_id,
                           name |-> row.name]>>
         IN  st \o PlayerRowStmts(Tail(rows))

\* deleted_ids = original_ids - current_ids, deleted first
PlayerSaveStmts(d, edited) ==
    LET current == {edited[i].player_id : i \in 1..Len(edited)} \ {0}
        deleted == SortedSeq(PlayerIds(d) \ current)
    IN  [i \in 1..Len(deleted) |-> [op |-> "delete_player", id |-> deleted[i]]]
        \o PlayerRowStmts(edited)

\* what the coach can leave in the player editor: every stored row is
\* removed or kept under a name of EditNames, and at most one row is added
EditNames == {"A", ""}
PlayerEdits(d) ==
    {RowsById({[player_id |-> id, name |-> e[id]] :
                    id \in {i \in PlayerIds(d) : e[i] # "removed"}},
              SortedSeq({i \in PlayerIds(d) : e[i] # "removed"})) \o new :
        e \in [PlayerIds(d) -> EditNames \cup {"removed"}],
        new \in {<<>>} \cup {<<[player_id |-> 0, name |-> n]>> : n \in EditNames}}

\* "save player list" button: try/except around all statements
SavePlayersClick ==
    \E d \in {Started} :
        \E edited \in PlayerEdits(d) :
            \E r \in {RunAll(d, schema, PlayerSaveStmts(d, edited))} :
                /\ PlayerIds(r.db) \ PlayerIds(d) \subseteq 1..MaxId
                /\ db_file' = TRUE
                /\ db' = r.db
                /\ ui' = Feedback("save_players", r.ok)
                /\ UNCHANGED schema

\* ---------------------------------------------------------------- tab 2
\* editor_states: the category editors in MAIN_CATS order, then "hidden_items"
EditorKeys == <<"pass", "serve", "hidden_items">>

\* the drills an editor shows, and the ones the save reads back for it:
\* SELECT ... WHERE category = ? AND is_hidden = 0, or WHERE is_hidden = 1
EditorRows(d, key) ==
    IF key = "hidden_items"
    THEN {x \in d.drills : x.is_hidden}
    ELSE {x \in d.drills : x.category = key /\ ~x.is_hidden}

RECURSIVE DrillRowStmts(_, _)
DrillRowStmts(key, rows) ==
    IF rows = <<>> THEN <<>>
    ELSE LET row == Head(rows)
             target == [row EXCEPT !.category =
                            IF key = "hidden_items" THEN row.category ELSE key]
             st == IF row.drill_id = 0
                   THEN [op |-> "insert_drill", row |-> target]
                   ELSE [op |-> "update_drill", row |-> target]
         IN  <<st>> \o DrillRowStmts(key, Tail(rows))

\* one editor of the save loop: db_df is read from the store as it is when
\* the loop reaches this editor; original_ids - current_ids are deleted,
\* then every editor row is inserted or updated
DrillKeyStmts(d, key, edited) ==
    LET original == {x.drill_id : x \in EditorRows(d, key)}
        current == {edited[i].drill_id : i \in 1..Len(edited)} \ {0}
        deleted == SortedSeq(original \ current)
    IN  [i \in 1..Len(deleted) |-> [op |-> "delete_drill", id |-> deleted[i]]]
        \o DrillRowStmts(key, edited)

RECURSIVE SaveDrillEditors(_, _, _, _)
SaveDrillEditors(d, sch, keys, editor_states) ==
    IF keys = <<>> THEN Done(d)
    ELSE LET key == Head(keys)
             r == RunAll(d, sch, DrillKeyStmts(d, key, editor_states[key]))
         IN  IF r.ok THEN SaveDrillEditors(r.db, sch, Tail(keys), editor_states)
             ELSE r

\* what the coach types over a drill name: the text columns take any text
\* (required=True refuses an empty cell only), here white space or the name
\* of the first seed drill
DrillNameEdits == {" ", "d1"}

\* what the coach can do to a shown drill: remove the row, or keep it with
\* its name or another one, with is_hidden ticked or not and, in the hidden
\* editor (the only one with a category column), under a category of MAIN_CATS
DrillChoices(x) ==
    {[keep |-> FALSE, drill_name |-> x.drill_name, is_hidden |-> x.is_hidden,
      category |-> x.category]}
    \cup {[keep |-> TRUE, drill_name |-> n, is_hidden |-> h, category |-> c] :
            n \in {x.drill_name} \cup DrillNameEdits,
            h \in BOOLEAN,
            c \in IF x.is_hidden THEN MAIN_CATS ELSE {x.category}}

DrillEdits(d) ==
    {e \in [DrillIds(d) -> UNION {DrillChoices(x) : x \in d.drills}] :
        \A x \in d.drills : e[x.drill_id] \in DrillChoices(x)}

\* the rows of one editor in the order shown (by id here)
RECURSIVE DrillRowsSeq(_, _, _)
DrillRowsSeq(d, ids, e) ==
    IF ids = <<>> THEN <<>>
    ELSE LET x == DrillOf(d, Head(ids))
         IN  <<[drill_id |-> x.drill_id, drill_name |-> e[x.drill_id].drill_name,
                category |-> e[x.drill_id].category,
                is_hidden |-> e[x.drill_id].is_hidden]>>
             \o DrillRowsSeq(d, Tail(ids), e)

\* at most one row is added, in one of the editors, with that editor's
\* default for is_hidden
NewDrillNames == {"d1"}
NewDrillRows ==
    {[key |-> "none", drill_name |-> "d1", category |-> "pass"]}
    \cup {[key |-> k, drill_name |-> n, category |-> k] :
            k \in MAIN_CATS, n \in NewDrillNames}
    \cup {[key |-> "hidden_items", drill_name |-> n, category |-> c] :
            n \in NewDrillNames, c \in MAIN_CATS}

EditorStates(d, e, new) ==
    [key \in {EditorKeys[i] : i \in 1..Len(EditorKeys)} |->
        DrillRowsSeq(d, SortedSeq({x.drill_id : x \in
                        {y \in EditorRows(d, key) : e[y.drill_id].keep}}), e)
        \o (IF new.key = key
            THEN <<[drill_id |-> 0, drill_name |-> new.drill_name,
                    category |-> new.category,
                    is_hidden |-> (key = "hidden_items")]>>
            ELSE <<>>)]

\* the drill_name column of every submitted editor table
NameColumns(editor_states) ==
    [key \in DOMAIN editor_states |->
        [i \in 1..Len(editor_states[key]) |-> editor_states[key][i].drill_name]]

\* "save all drill changes" button: try/except around the whole loop
SaveDrillsClick ==
    \E d \in {Started} :
        \E e \in DrillEdits(d), new \in NewDrillRows :
            \E r \in {SaveDrillEditors(d, schema, EditorKeys,
                                       EditorStates(d, e, new))} :
                /\ DrillIds(r.db) \ DrillIds(d) \subseteq 1..MaxId
                /\ db_file' = TRUE
                /\ db' = r.db
                /\ ui' = [Feedback("save_drills", r.ok) EXCEPT
                            !.arg = {[drill_id |-> x.drill_id] :
                                        x \in {y \in d.drills :
                                            /\ ~y.is_hidden
                                            /\ e[y.drill_id].keep
                                            /\ e[y.drill_id].is_hidden}},
                            !.sel = NameColumns(EditorStates(d, e, new))]
                /\ UNCHANGED schema

\* ---------------------------------------------------------------- tab 3
\* "delete" button of the selected session: exec_one outside any try
DeleteSessionClick ==
    \E d \in {Started} :
        \E sid \in SessionIds(d) :
            \E r \in {exec_one(d, schema, [op |-> "delete_session", id |-> sid])} :
                /\ db_file' = TRUE
                /\ db' = r.db
                /\ ui' = Feedback("delete_session", r.ok)
                /\ UNCHANGED schema

\* "update planned attendance" button: one upsert per player of players_all
AttendanceStmts(d, sid, new_att) ==
    LET pids == SortedSeq(PlayerIds(d))
    IN  [i \in 1..Len(pids) |->
            [op |-> "upsert_attendance", sid |-> sid, pid |-> pids[i],
             status |-> new_att[pids[i]]]]

\* the rows a submission asks for, and whether one of them meets a stored row
\* of its key that holds other values
AttendanceRows(d, sid, new_att) ==
    {[session_id |-> sid, player_id |-> pid, status |-> new_att[pid]] :
        pid \in PlayerIds(d)}
ReplacesAttendance(d, rows) ==
    \E r \in d.attendance, n \in rows : AttendanceKey(r) = AttendanceKey(n) /\ r # n
ReplacesSessionDrill(d, rows) ==
    \E r \in d.session_drills, n \in rows :
        SessionDrillKey(r) = SessionDrillKey(n) /\ r # n

UpdateAttendanceClick ==
    \E d \in {Started} :
        \E sid \in SessionIds(d), new_att \in [PlayerIds(d) -> STATUS] :
            \E r \in {RunAll(d, schema, AttendanceStmts(d, sid, new_att))} :
                /\ db_file' = TRUE
                /\ db' = r.db
                /\ ui' = [Feedback("update_attendance", r.ok) EXCEPT
                            !.arg = AttendanceRows(d, sid, new_att),
                            !.replaced = ReplacesAttendance(d,
                                            AttendanceRows(d, sid, new_att))]
                /\ UNCHANGED schema

\* "add to training flow" button: sel_did is one of the drills that are not hidden
AddToFlowStmt(sid, did, seq, mins) ==
    [op |-> "upsert_session_drill", sid |-> sid, did |-> did, seq |-> seq,
     mins |-> mins]

FlowRow(sid, did, seq, mins) ==
    [session_id |-> sid, drill_id |-> did, sequence_no |-> seq,
     planned_minutes |-> mins]

AddToFlowClick ==
    \E d \in {Started} :
        \E sid \in SessionIds(d), seq \in 1..MaxSeq, mins \in Minutes :
            \E sel_did \in {x.drill_id : x \in {y \in d.drills : ~y.is_hidden}} :
                \E r \in {exec_one(d, schema, AddToFlowStmt(sid, sel_did, seq, mins))} :
                    /\ db_file' = TRUE
                    /\ db' = r.db
                    /\ ui' = [Feedback("add_to_flow", r.ok) EXCEPT
                                !.arg = {FlowRow(sid, sel_did, seq, mins)},
                                !.replaced = ReplacesSessionDrill(d,
                                                {FlowRow(sid, sel_did, seq, mins)})]
                    /\ UNCHANGED schema

\* flow: session_drills JOIN drills of the session, as (sequence_no, drill_name,
\* planned_minutes) rows
Flow(d, sid) ==
    {[seq |-> r.sequence_no, name |-> DrillOf(d, r.drill_id).drill_name,
      mins |-> r.planned_minutes, did |-> r.drill_id] :
        r \in {q \in d.session_drills :
                    q.session_id = sid /\ q.drill_id \in DrillIds(d)}}

\* SELECT drill_id FROM drills WHERE drill_name=? ... fetchone(): the first
\* drill of that name, 0 when fetchone() returns None
DrillIdByName(d, name) ==
    LET ids == {x.drill_id : x \in {y \in d.drills : y.drill_name = name}}
    IN  IF ids = {} THEN 0 ELSE Min(ids)

\* the loop of "save flow edits": look the drill up by name, insert; a name
\* that matches no drill raises at fetchone()[0]
RECURSIVE SaveFlowRows(_, _, _, _)
SaveFlowRows(d, sch, sid, rows) ==
    IF rows = <<>> THEN Done(d)
    ELSE LET row == Head(rows)
             did == DrillIdByName(d, row.name)
             r == IF did = 0 THEN Raise(d)
                  ELSE exec_one(d, sch, [op |-> "insert_session_drill", sid |-> sid,
                                         did |-> did, seq |-> row.seq,
                                         mins |-> row.mins])
         IN  IF r.ok THEN SaveFlowRows(r.db, sch, sid, Tail(rows)) ELSE r

\* "save flow edits" button: delete the session's rows, then re-insert the editor's
SaveFlowEdits(d, sch, sid, ed_flow) ==
    LET r == exec_one(d, sch, [op |-> "delete_session_drills", sid |-> sid])
    IN  IF r.ok THEN SaveFlowRows(r.db, sch, sid, ed_flow) ELSE r

\* what the coach can leave in the flow editor: every shown row is removed
\* (seq 0 here) or kept with a sequence number and minutes, in the order shown
\* (by drill id here), and at most one row is added, whose name column is
\* disabled and so stays empty.  did is the drill of the stored row an editor
\* row shows (0 for an added row); the editor has no such column and the save
\* does not read it
RECURSIVE FlowRowsSeq(_, _, _)
FlowRowsSeq(flow, dids, e) ==
    IF dids = <<>> THEN <<>>
    ELSE LET f == CHOOSE x \in flow : x.did = Head(dids)
         IN  <<[seq |-> e[f.did].seq, name |-> f.name, mins |-> e[f.did].mins,
                did |-> f.did]>>
             \o FlowRowsSeq(flow, Tail(dids), e)

FlowEdits(d, sid) ==
    LET flow == Flow(d, sid)
        dids == {f.did : f \in flow}
    IN  {FlowRowsSeq(flow, SortedSeq({i \in dids : e[i].seq # 0}), e) \o new :
            e \in [dids -> {[seq |-> 0, mins |-> 20]}
                           \cup [seq : 1..MaxSeq, mins : Minutes]],
            new \in {<<>>, <<[seq |-> 1, name |-> "", mins |-> 20, did |-> 0]>>}}

SaveFlowEditsClick ==
    \E d \in {Started} :
        \E sid \in SessionIds(d) :
            /\ Flow(d, sid) # {}
            /\ \E ed_flow \in FlowEdits(d, sid) :
                \E r \in {SaveFlowEdits(d, schema, sid, ed_flow)} :
                    /\ db_file' = TRUE
                    /\ db' = r.db
                    /\ ui' = [Feedback("save_flow", r.ok) EXCEPT
                                !.arg = {ed_flow[i] : i \in 1..Len(ed_flow)},
                                !.sel = <<sid>>]
                    /\ UNCHANGED schema

\* the weekday sets offered here: none, Thursday, and the form's default
\* Monday, Wednesday, Friday
TargetDays == {{}, {3}, {0, 2, 4}}

\* while curr <= b_e: one INSERT per day whose weekday is chosen
BatchStmtsExclusive(curr, b_e, target_days, b_p) ==
    [i \in 1..Cardinality({x \in curr..(b_e - 1) : Weekday(x) \in target_days}) |->
        [op |-> "insert_session",
         date |-> CHOOSE x \in curr..(b_e - 1) :
                    /\ Weekday(x) \in target_days
                    /\ Cardinality({y \in curr..x : Weekday(y) \in target_days}) = i,
         phase |-> b_p]]
RECURSIVE BatchStmts(_, _, _, _)
BatchStmts(curr, b_e, target_days, b_p) ==
    IF ~(curr <= b_e) THEN <<>>
    ELSE (IF Weekday(curr) \in target_days
          THEN <<[op |-> "insert_session", date |-> curr, phase |-> b_p]>>
          ELSE <<>>) \o BatchStmts(curr + 1, b_e, target_days, b_p)

\* batch generator button; count is the number of statements that ran
BatchGenerateClick ==
    \E d \in {Started} :
        \E b_s \in Days, b_e \in Days, b_d \in TargetDays, b_p \in PHASES :
            \E stmts \in {BatchStmts(b_s, b_e, b_d, b_p)} :
                \E r \in {RunAll(d, schema, stmts)} :
                    /\ Cardinality(r.db.sessions) <= MaxSessions
                    /\ db_file' = TRUE
                    /\ db' = r.db
                    /\ ui' = [Feedback("batch", r.ok) EXCEPT
                                !.rows = Len(stmts),
                                !.arg = {[b_s |-> b_s, b_e |-> b_e, b_d |-> b_d,
                                          b_p |-> b_p]}]
                    /\ UNCHANGED schema

\* ---------------------------------------------------------------- crashes
\* the statements the drill save issues: each editor's statements are built
\* from the store the editors before it left
RECURSIVE DrillSaveIssued(_, _, _, _)
DrillSaveIssued(d, sch, keys, editor_states) ==
    IF keys = <<>> THEN <<>>
    ELSE LET stmts == DrillKeyStmts(d, Head(keys), editor_states[Head(keys)])
             r == RunAll(d, sch, stmts)
         IN  IF r.ok
             THEN stmts \o DrillSaveIssued(r.db, sch, Tail(keys), editor_states)
             ELSE stmts

\* the statements the flow save issues up to the first row whose name
\* matches no drill, where the handler raises before its next statement
RECURSIVE FlowInsertStmts(_, _, _)
FlowInsertStmts(d, sid, rows) ==
    IF rows = <<>> \/ DrillIdByName(d, Head(rows).name) = 0 THEN <<>>
    ELSE <<[op |-> "insert_session_drill", sid |-> sid,
            did |-> DrillIdByName(d, Head(rows).name), seq |-> Head(rows).seq,
            mins |-> Head(rows).mins]>> \o FlowInsertStmts(d, sid, Tail(rows))
FlowSaveIssued(d, sid, ed_flow) ==
    <<[op |-> "delete_session_drills", sid |-> sid]>>
    \o FlowInsertStmts(d, sid, ed_flow)

SavePlayersCrash ==
    \E d \in {Started} :
        \E edited \in PlayerEdits(d) :
            /\ PlayerIds(RunAll(d, schema, PlayerSaveStmts(d, edited)).db)
                    \ PlayerIds(d) \subseteq 1..MaxId
            /\ Crash(d, PlayerSaveStmts(d, edited))

SaveDrillsCrash ==
    \E d \in {Started} :
        \E e \in DrillEdits(d) :
            Crash(d, DrillSaveIssued(d, schema, EditorKeys,
                        EditorStates(d, e, [key |-> "none", drill_name |-> "d1",
                                            category |-> "pass"])))

UpdateAttendanceCrash ==
    \E d \in {Started} :
        \E sid \in SessionIds(d), new_att \in [PlayerIds(d) -> STATUS] :
            Crash(d, AttendanceStmts(d, sid, new_att))

SaveFlowEditsCrash ==
    \E d \in {Started} :
        \E sid \in SessionIds(d) :
            /\ Flow(d, sid) # {}
            /\ \E ed_flow \in FlowEdits(d, sid) :
                    Crash(d, FlowSaveIssued(d, sid, ed_flow))

BatchGenerateCrash ==
    \E d \in {Started} :
        \E b_s \in Days, b_e \in Days, b_d \in TargetDays, b_p \in PHASES :
            /\ Cardinality(d.sessions) + Len(BatchStmts(b_s, b_e, b_d, b_p))
                    <= MaxSessions
            /\ Crash(d, BatchStmts(b_s, b_e, b_d, b_p))

\* ---------------------------------------------------------------- tab 4
\* "update final attendance" button: the same upserts as in tab 3
UpdateFinalAttendanceClick ==
    \E d \in {Started} :
        \E sid \in SessionIds(d), new_final_status \in [PlayerIds(d) -> STATUS] :
            \E r \in {RunAll(d, schema, AttendanceStmts(d, sid, new_final_status))} :
                /\ db_file' = TRUE
                /\ db' = r.db
                /\ ui' = [Feedback("update_final_attendance", r.ok) EXCEPT
                            !.arg = AttendanceRows(d, sid, new_final_status),
                            !.replaced = ReplacesAttendance(d,
                                            AttendanceRows(d, sid, new_final_status))]
                /\ UNCHANGED schema

\* The confirmation form offers all of STATUS; "save results" only reads
\* whether a status is present/late or not, so one status of each kind is drawn
FormStatuses == {"present", "absent"}

\* planned_drills: the session's session_drills JOIN drills
PlannedDrills(d, sid) == {f.did : f \in Flow(d, sid)}

\* present_p_list: the players whose status in the confirmation form (not in
\* the attendance table) is present or late
present_p_list(d, sid, new_final_status) ==
    {pid \in PlayerIds(d) : new_final_status[pid] \in {"present", "late"}}

\* record_df: final_players LEFT JOIN exist_res ON player_id: one row per
\* stored result of the player for (sid, sel_did), or one (0, 0) row
RECURSIVE RecordRows(_, _, _, _)
RecordRows(d, sid, did, pids) ==
    IF pids = <<>> THEN <<>>
    ELSE LET exist == {r \in d.drill_results :
                        r.session_id = sid /\ r.drill_id = did
                        /\ r.player_id = Head(pids)}
             ids == SortedSeq({r.result_id : r \in exist})
             rows == IF exist = {}
                     THEN <<[player_id |-> Head(pids), success_count |-> 0,
                             total_count |-> 0]>>
                     ELSE [i \in 1..Len(ids) |->
                            LET r == CHOOSE q \in exist : q.result_id = ids[i]
                            IN  [player_id |-> r.player_id,
                                 success_count |-> r.success_count,
                                 total_count |-> r.total_count]]
         IN  rows \o RecordRows(d, sid, did, Tail(pids))

\* edited_res: every row of record_df with the counts the coach typed
EditedRes(record) ==
    {[i \in 1..Len(record) |->
        [player_id |-> record[i].player_id, success_count |-> s[i],
         total_count |-> t[i]]] :
        s \in [1..Len(record) -> Counts], t \in [1..Len(record) -> Counts]}

\* errors: the players of the rows with success_count > total_count
ResultErrorsNone(edited) == <<>>
ResultErrors(edited) ==
    LET bad == SelectSeq(edited, LAMBDA row : row.success_count > row.total_count)
    IN  [i \in 1..Len(bad) |-> bad[i].player_id]

ResultStmtsValidOnly(sid, did, edited) ==
    LET valid == SelectSeq(edited, LAMBDA row : row.success_count <= row.total_count)
    IN  [i \in 1..Len(valid) |->
            [op |-> "upsert_result", sid |-> sid, did |-> did,
             pid |-> valid[i].player_id, s |-> valid[i].success_count,
             t |-> valid[i].total_count]]
ResultStmts(sid, did, edited) ==
    [i \in 1..Len(edited) |->
        [op |-> "upsert_result", sid |-> sid, did |-> did,
         pid |-> edited[i].player_id, s |-> edited[i].success_count,
         t |-> edited[i].total_count]]

\* "save results" button: nothing is written when errors is not empty
WriteOnErrors(d, sch, sid, did, edited) ==
    RunAll(d, sch, ResultStmtsValidOnly(sid, did, edited))
RejectOnErrors(d, sch, sid, did, edited) == Done(d)

SaveResults(d, sch, sid, did, edited) ==
    IF ResultErrors(edited) # <<>>
    THEN RejectOnErrors(d, sch, sid, did, edited)
    ELSE RunAll(d, sch, ResultStmts(sid, did, edited))

\* the store has room for the rows this submission writes (MaxResults)
ResultsFit(d, sch, record) ==
    \/ sch.results_unique
    \/ Cardinality(d.drill_results) + Len(record) <= MaxResults

SaveResultsClick ==
    \E d \in {Started} :
        \E sid \in SessionIds(d) :
            \E sel_did \in PlannedDrills(d, sid) :
                \E new_final_status \in [PlayerIds(d) -> FormStatuses] :
                    \E present \in {present_p_list(d, sid, new_final_status)} :
                        /\ present # {}
                        /\ \E record \in {RecordRows(d, sid, sel_did,
                                                      SortedSeq(present))} :
                            \E edited \in EditedRes(record) :
                                /\ ResultErrors(edited) = <<>>
                                        => ResultsFit(d, schema, record)
                                /\ \E r \in {SaveResults(d, schema, sid, sel_did,
                                                         edited)} :
                                    /\ r.ok
                                    /\ db_file' = TRUE
                                    /\ db' = r.db
                                    /\ ui' = [Feedback("save_results",
                                                ResultErrors(edited) = <<>>)
                                              EXCEPT !.errors = ResultErrors(edited),
                                                     !.rows = Len(edited)]
                                    /\ UNCHANGED schema

\* ---------------------------------------------------------------- rates
\* A derived rate: Null is NaN / SQL NULL (nothing to show), Inf is the float
\* infinity, and a number is kept in tenths of a percent, as .round(1) leaves it.
\* Within the bounds no quotient lies halfway between two tenths, so the
\* rounding mode makes no difference.
Null == [kind |-> "null", x10 |-> 0]
Inf == [kind |-> "inf", x10 |-> 0]
Num(x10) == [kind |-> "num", x10 |-> x10]
Round1(s, t) == (2000 * s + t) \div (2 * t)

\* pandas: s / t * 100 on integer columns: 0/0 is NaN, x/0 is inf
PandasRate(s, t) ==
    IF t = 0 THEN (IF s = 0 THEN Null ELSE Inf) ELSE Num(Round1(s, t))

\* SQLite: CAST(s AS FLOAT) / t * 100: a division by 0 is NULL
SqlRate(s, t) == IF t = 0 THEN Null ELSE Num(Round1(s, t))

\* .fillna(0): NaN becomes 0
FillNa0(rate) == IF rate = Null THEN Num(0) ELSE rate

\* SUM(success_count), SUM(total_count)
RECURSIVE SumS(_)
SumS(rows) ==
    IF rows = {} THEN 0
    ELSE LET r == CHOOSE x \in rows : TRUE
         IN  r.success_count + SumS(rows \ {r})
RECURSIVE SumT(_)
SumT(rows) ==
    IF rows = {} THEN 0
    ELSE LET r == CHOOSE x \in rows : TRUE
         IN  r.total_count + SumT(rows \ {r})

\* tab 4: record_df['成功率%'] = (success_count / total_count * 100).fillna(0).round(1)
ResultTableRates(record) ==
    {[total |-> record[i].total_count,
      rate |-> FillNa0(PandasRate(record[i].success_count, record[i].total_count))] :
        i \in 1..Len(record)}

\* tab 5 KPI card: shown only if SUM(total_count) > 0
KpiRates(d) ==
    IF SumT(d.drill_results) > 0
    THEN {[total |-> SumT(d.drill_results),
           rate |-> PandasRate(SumS(d.drill_results), SumT(d.drill_results))]}
    ELSE {}

\* tab 5 radar: one rate per category of the player's results
RadarRates(d, sel_p) ==
    LET mine == {r \in d.drill_results : r.player_id = sel_p}
        cats == {DrillOf(d, r.drill_id).category : r \in mine}
    IN  {LET g == {r \in mine : DrillOf(d, r.drill_id).category = c}
         IN  [total |-> SumT(g), rate |-> SqlRate(SumS(g), SumT(g))] : c \in cats}

\* drill_name LIKE '%' || sel_cat || '%': among the names of the model one
\* holds another only if they are equal
Like(name, part) == name = part

\* the session_date of the session a result belongs to
DateOf(d, r) == (CHOOSE x \in d.sessions : x.session_id = r.session_id).session_date

\* the rows the trend query reads: the player's results joined with their
\* session and drill, in the category or with the category in the drill name
TrendRows(d, sel_p, sel_cat) ==
    {r \in d.drill_results :
        /\ r.player_id = sel_p
        /\ r.session_id \in SessionIds(d)
        /\ r.drill_id \in DrillIds(d)
        /\ \/ DrillOf(d, r.drill_id).category = sel_cat
           \/ Like(DrillOf(d, r.drill_id).drill_name, sel_cat)}

\* the orders ORDER BY s.session_date can give: session_date is a bare column
\* of the grouped query, taken from any one row of each group
TrendOrders(d, sel_p, sel_cat) ==
    LET mine == TrendRows(d, sel_p, sel_cat)
    IN  {f \in [{MonthDay(DateOf(d, r)) : r \in mine} -> {DateOf(d, r) : r \in mine}] :
            \A l \in DOMAIN f :
                \E r \in mine : MonthDay(DateOf(d, r)) = l /\ DateOf(d, r) = f[l]}

\* tab 5 trend: GROUP BY strftime('%m/%d', session_date): one point per
\* month/day label, with the summed counts, their rate, and the session_date
\* the point is ordered by
TrendPoints(d, sel_p, sel_cat, order) ==
    LET mine == TrendRows(d, sel_p, sel_cat)
    IN  {LET g == {r \in mine : MonthDay(DateOf(d, r)) = l}
         IN  [label |-> l, order |-> order[l], total |-> SumT(g),
              rate |-> PandasRate(SumS(g), SumT(g))] :
            l \in DOMAIN order}

\* tab 5 team bar: one rate per category over the rows with total_count > 0
TeamBarRates(d) ==
    LET rows == {r \in d.drill_results : r.total_count > 0}
        cats == {DrillOf(d, r.drill_id).category : r \in rows}
    IN  {LET g == {r \in rows : DrillOf(d, r.drill_id).category = c}
         IN  [total |-> SumT(g), rate |-> SqlRate(SumS(g), SumT(g))] : c \in cats}

\* ---------------------------------------------------------------- error labels
\* error_type as stored: the labels of the result editor's select box ("none"
\* = 無, then two of the five error labels), the empty and the blank string,
\* and NULL (the cell was cleared)
NULL == "NULL"
ErrorLabels == {"none", "footwork", "power", "", " ", NULL}

\* SQL: error_type != '無' is unknown, hence not true, for NULL
NotNone(label) == label # NULL /\ label # "none"

\* SELECT error_type, COUNT(*) ... WHERE error_type != '無' GROUP BY error_type
ErrorBuckets(d) ==
    LET rows == {r \in d.drill_results : NotNone(r.error_type)}
    IN  {[label |-> l, count |-> Cardinality({r \in rows : r.error_type = l})] :
            l \in {r.error_type : r \in rows}}

\* ... ORDER BY c DESC LIMIT 1: one of the buckets of the largest count
TopErrors(d) ==
    {b \in ErrorBuckets(d) : \A c \in ErrorBuckets(d) : c.count <= b.count}

\* tab 5 error pie (plotly draws the sectors largest first)
RenderErrorPie ==
    \E d \in {Started} :
        /\ db_file' = TRUE
        /\ db' = d
        /\ ui' = [Feedback("error_pie", TRUE) EXCEPT !.arg = ErrorBuckets(d)]
        /\ UNCHANGED schema

\* tab 5 KPI card "top error", drawn with the KPI cards when SUM(total_count) > 0
RenderTopError ==
    \E d \in {Started} :
        /\ d.drill_results # {}
        /\ SumT(d.drill_results) > 0
        /\ \E top \in SUBSET TopErrors(d) :
                /\ Cardinality(top) = (IF TopErrors(d) = {} THEN 0 ELSE 1)
                /\ ui' = [Feedback("top_error", TRUE) EXCEPT !.arg = top]
        /\ db_file' = TRUE
        /\ db' = d
        /\ UNCHANGED schema

\* a script run draws the result-entry table of tab 4 ...
RenderResultTable ==
    \E d \in {Started} :
        \E sid \in SessionIds(d) :
            \E sel_did \in PlannedDrills(d, sid) :
                \E new_final_status \in [PlayerIds(d) -> FormStatuses] :
                    \E present \in {present_p_list(d, sid, new_final_status)} :
                        /\ present # {}
                        /\ db_file' = TRUE
                        /\ db' = d
                        /\ ui' = [Feedback("result_table", TRUE) EXCEPT
                                    !.arg = ResultTableRates(
                                        RecordRows(d, sid, sel_did, SortedSeq(present)))]
                        /\ UNCHANGED schema

\* ... and the charts of tab 5
RenderKpi ==
    \E d \in {Started} :
        /\ d.drill_results # {}
        /\ db_file' = TRUE
        /\ db' = d
        /\ ui' = [Feedback("kpi", TRUE) EXCEPT !.arg = KpiRates(d)]
        /\ UNCHANGED schema

RenderRadar ==
    \E d \in {Started} :
        \E sel_p \in PlayerIds(d) :
            /\ db_file' = TRUE
            /\ db' = d
            /\ ui' = [Feedback("radar", TRUE) EXCEPT !.arg = RadarRates(d, sel_p)]
            /\ UNCHANGED schema

RenderTrend ==
    \E d \in {Started} :
        \E sel_p \in PlayerIds(d), sel_cat \in MAIN_CATS :
            /\ db_file' = TRUE
            /\ db' = d
            /\ \E order \in TrendOrders(d, sel_p, sel_cat) :
                    ui' = [Feedback("trend", TRUE) EXCEPT
                            !.arg = TrendPoints(d, sel_p, sel_cat, order),
                            !.sel = <<sel_p, sel_cat>>]
            /\ UNCHANGED schema

RenderTeamBar ==
    \E d \in {Started} :
        /\ db_file' = TRUE
        /\ db' = d
        /\ ui' = [Feedback("team_bar", TRUE) EXCEPT !.arg = TeamBarRates(d)]
        /\ UNCHANGED schema

\* ---------------------------------------------------------------- store life cycle
NoFeedback == Feedback("none", TRUE)

InitStore ==
    /\ db_file = FALSE
    /\ db = EmptyDb
    /\ schema \in {sch \in SchemaChoices : ~sch.name_check}
    /\ ui = NoFeedback

NextStore ==
    \/ InitDbRun
    \/ ResetToSeedClick
    \/ SavePlayersClick
    \/ DeleteSessionClick

SpecStore == InitStore /\ [][NextStore]_vars

\* ---------------------------------------------------------------- result entry
\* the seeded store after the coach deleted session 2 and planned drill 1 for
\* session 1
PlannedDb ==
    [SeededDb EXCEPT !.sessions = {s \in @ : s.session_id = 1},
                     !.session_drills = {[session_id |-> 1, drill_id |-> 1,
                                          sequence_no |-> 1, planned_minutes |-> 20]}]

\* no handler of Next or NextAttend deletes a row or writes a drill, so the
\* ON DELETE choice and the name check cannot make a difference here
Init ==
    /\ db_file = TRUE
    /\ db = PlannedDb
    /\ schema \in {sch \in SchemaChoices :
                        sch.on_delete = "RESTRICT" /\ ~sch.name_check}
    /\ ui = NoFeedback

Next ==
    \/ InitDbRun
    \/ SaveResultsClick

Spec == Init /\ [][Next]_vars

NextAttend ==
    \/ UpdateFinalAttendanceClick
    \/ SaveResultsClick

SpecAttend == Init /\ [][NextAttend]_vars

\* ---------------------------------------------------------------- planning
\* the seeded store after the coach deleted player 2 and drill 2
InitFlow ==
    /\ db_file = TRUE
    /\ db = [SeededDb EXCEPT !.players = {[player_id |-> 1, name |-> "A"]},
                             !.drills = {x \in @ : x.drill_id = 1}]
    /\ schema \in {sch \in SchemaChoices : ~sch.name_check}
    /\ ui = NoFeedback

NextFlow ==
    \/ AddToFlowClick
    \/ SaveFlowEditsClick
    \/ UpdateAttendanceClick

SpecFlow == InitFlow /\ [][NextFlow]_vars

\* ---------------------------------------------------------------- drill library
\* no handler of NextDrills writes a result, so the uniqueness of results
\* cannot make a difference here
InitDrills ==
    /\ db_file = TRUE
    /\ db = PlannedDb
    /\ schema \in {sch \in SchemaChoices : sch.results_unique}
    /\ ui = NoFeedback

NextDrills ==
    \/ InitDbRun
    \/ SaveDrillsClick

SpecDrills == InitDrills /\ [][NextDrills]_vars

\* ---------------------------------------------------------------- flow and names
\* the seeded store with both drills in the flow of session 1 and drill 1 in
\* the flow of session 2, as it is or after the drill library saved drill 2
\* under another name
InitFlowNames ==
    /\ db_file = TRUE
    /\ \E n \in {"d2"} \cup DrillNameEdits :
        db = [SeededDb EXCEPT
                !.drills = {IF x.drill_id = 2 THEN [x EXCEPT !.drill_name = n]
                            ELSE x : x \in @},
                !.session_drills =
                    {[session_id |-> 1, drill_id |-> 1, sequence_no |-> 1,
                      planned_minutes |-> 20],
                     [session_id |-> 1, drill_id |-> 2, sequence_no |-> 2,
                      planned_minutes |-> 20],
                     [session_id |-> 2, drill_id |-> 1, sequence_no |-> 1,
                      planned_minutes |-> 20]}]
    /\ schema \in {sch \in SchemaChoices :
                        /\ sch.on_delete = "RESTRICT"
                        /\ sch.results_unique
                        /\ ~sch.name_check}
    /\ ui = NoFeedback

NextFlowNames ==
    \/ AddToFlowClick
    \/ SaveFlowEditsClick

SpecFlowNames == InitFlowNames /\ [][NextFlowNames]_vars

\* ---------------------------------------------------------------- deletions
NextRefs ==
    \/ SavePlayersClick
    \/ SaveDrillsClick
    \/ DeleteSessionClick
    \/ SaveResultsClick

\* the seeded store after the coach deleted player 2, drill 2 and session 2
\* and planned drill 1 for session 1
InitRefs ==
    /\ db_file = TRUE
    /\ db = [PlannedDb EXCEPT !.players = {[player_id |-> 1, name |-> "A"]},
                              !.drills = {x \in @ : x.drill_id = 1}]
    /\ schema \in SchemaChoices
    /\ ui = NoFeedback

SpecRefs == InitRefs /\ [][NextRefs]_vars

\* ---------------------------------------------------------------- reports
\* the stores the reports are drawn from: the planned store with at most one
\* valid result per player for drill 1 of session 1
RateRows(pid) ==
    {{}} \cup
    {{[result_id |-> pid, session_id |-> 1, drill_id |-> 1, player_id |-> pid,
       success_count |-> c[1], total_count |-> c[2]]} :
        c \in {x \in Counts \X Counts : x[1] <= x[2]}}

InitRate ==
    /\ db_file = TRUE
    /\ \E r1 \in RateRows(1), r2 \in RateRows(2) :
            db = [PlannedDb EXCEPT !.drill_results = r1 \cup r2]
    /\ schema \in {sch \in SchemaChoices :
                        sch.on_delete = "RESTRICT" /\ ~sch.name_check}
    /\ ui = NoFeedback

NextRate ==
    \/ RenderResultTable
    \/ RenderKpi
    \/ RenderRadar
    \/ RenderTrend
    \/ RenderTeamBar

SpecRate == InitRate /\ [][NextRate]_vars

\* ---------------------------------------------------------------- season plan
\* the seeded store after the coach deleted both seed sessions
InitBatch ==
    /\ db_file = TRUE
    /\ db = [SeededDb EXCEPT !.sessions = {}]
    /\ schema \in {sch \in SchemaChoices :
                        sch.on_delete = "RESTRICT" /\ ~sch.name_check}
    /\ ui = NoFeedback

NextBatch ==
    \/ BatchGenerateClick
    \/ InitDbRun

SpecBatch == InitBatch /\ [][NextBatch]_vars

\* ---------------------------------------------------------------- crashes
\* the planned store with both drills in the flow of session 1 and an
\* attendance row per player, and the seeded store without sessions
CrashDb ==
    [PlannedDb EXCEPT
        !.session_drills = @ \cup {[session_id |-> 1, drill_id |-> 2,
                                    sequence_no |-> 2, planned_minutes |-> 20]},
        !.attendance = {[session_id |-> 1, player_id |-> p, status |-> "present"] :
                            p \in PlayerIds(PlannedDb)}]

\* a behaviour ends with the crash: the process is gone
InitCrash ==
    /\ db_file = TRUE
    /\ db \in {CrashDb, [SeededDb EXCEPT !.sessions = {}]}
    /\ schema \in SchemaChoices
    /\ ui = NoFeedback

NextCrash ==
    \/ SavePlayersCrash
    \/ SaveDrillsCrash
    \/ UpdateAttendanceCrash
    \/ SaveFlowEditsCrash
    \/ BatchGenerateCrash

SpecCrash == InitCrash /\ [][NextCrash]_vars

\* ---------------------------------------------------------------- trend
\* the stores the trend is drawn from: session 1 on day 0 and session 2 either
\* the day after or a year after (both as the batch generator inserts them),
\* with at most one result of player 1 for drill 1 in each
TrendRowsOf(sid) ==
    {{}} \cup
    {{[result_id |-> sid, session_id |-> sid, drill_id |-> 1, player_id |-> 1,
       success_count |-> c[1], total_count |-> c[2]]} :
        c \in {x \in Counts \X Counts : x[1] <= x[2] /\ x[2] > 0}}

InitTrend ==
    /\ db_file = TRUE
    /\ \E date \in {1, DaysPerYear}, r1 \in TrendRowsOf(1), r2 \in TrendRowsOf(2) :
            db = [SeededDb EXCEPT
                    !.sessions = {[session_id |-> 1, session_date |-> 0,
                                   phase |-> "base"],
                                  [session_id |-> 2, session_date |-> date,
                                   phase |-> "base"]},
                    !.drill_results = r1 \cup r2]
    /\ schema \in {sch \in SchemaChoices :
                        /\ sch.on_delete = "RESTRICT"
                        /\ sch.results_unique
                        /\ ~sch.name_check}
    /\ ui = NoFeedback

NextTrend == RenderTrend

SpecTrend == InitTrend /\ [][NextTrend]_vars

\* ---------------------------------------------------------------- error report
\* the stores the error report is drawn from: the planned store with at most
\* one result per player for drill 1 of session 1, and one for drill 2
ErrorRows(id, did, pid) ==
    {{}} \cup
    {{[result_id |-> id, session_id |-> 1, drill_id |-> did, player_id |-> pid,
       success_count |-> 1, total_count |-> 1, error_type |-> l]} :
        l \in ErrorLabels}

InitErrors ==
    /\ db_file = TRUE
    /\ \E r1 \in ErrorRows(1, 1, 1), r2 \in ErrorRows(2, 1, 2),
          r3 \in ErrorRows(3, 2, 1) :
            db = [PlannedDb EXCEPT !.drill_results = r1 \cup r2 \cup r3]
    /\ schema \in {sch \in SchemaChoices :
                        /\ sch.on_delete = "RESTRICT"
                        /\ sch.results_unique
                        /\ ~sch.name_check}
    /\ ui = NoFeedback

NextErrors ==
    \/ RenderErrorPie
    \/ RenderTopError

SpecErrors == InitErrors /\ [][NextErrors]_vars

\* ================================================================ properties

\* C1: every stored drill_results row with a positive total_count has a
\* success_count that is at least 0 and at most total_count.
ResultWithinTotal ==
    \A r \in db.drill_results :
        r.total_count > 0 => r.success_count <= r.total_count

\* a save went through and left a row with a positive total_count
ResultWithinTotalWitness ==
    /\ ui.op = "save_results"
    /\ ui.ok
    /\ \E r \in db.drill_results : r.total_count > 0 /\ r.success_count > 0

\* C2: a result submission in which some row has success_count > total_count
\* is rejected as a whole: the step that reports the error leaves every table
\* as it was, the valid rows of the submission included.
RejectedSubmissionWritesNothing ==
    [][(ui'.op = "save_results" /\ ~ui'.ok) => db' = db]_vars

\* a submission was rejected although some of its rows were valid
RejectedSubmissionWitness ==
    /\ ui.op = "save_results"
    /\ ~ui.ok
    /\ Len(ui.errors) > 0
    /\ Len(ui.errors) < ui.rows

\* C5: marking a visible drill as hidden in a category editor and saving is a
\* soft deletion: after the save the drill row still exists with is_hidden set.
\* (ui'.arg holds the visible drills the coach kept in their editor and ticked
\* as hidden.)
HiddenDrillIsKept ==
    [][ui'.op = "save_drills" =>
        \A a \in ui'.arg :
            \E x \in db'.drills : x.drill_id = a.drill_id /\ x.is_hidden]_vars

\* C6: init_db_if_needed seeds a store only when it did not exist: on an
\* existing store it leaves every row as it is, so a second call changes
\* nothing; on a missing store it creates the schema and the full seed.
RowsOf(d) == [d EXCEPT !.has_schema = TRUE]
InitSeedsOnce ==
    [][ui'.op = "init" =>
        /\ db_file => db' = RowsOf(db)
        /\ ~db_file => db' = SeededDb
        /\ ui.op = "init" => db' = db]_vars

\* init ran on an existing store from which the coach had deleted a seed row,
\* and the row did not come back
InitSeedsOnceWitness ==
    /\ ui.op = "init"
    /\ db.has_schema
    /\ db.players # {}
    /\ db.players # SeedPlayers
    /\ db.sessions = SeedSessions

\* C7: reset_to_seed never leaves the store partially reset: after the click,
\* whether it reports success or failure, the store is the complete pre-reset
\* store or the schema with the full seed.
ResetIsAllOrNothing ==
    [][ui'.op = "reset" => (db' = Started \/ db' = SeededDb)]_vars

\* C9: a result save on a session writes rows only for players whose stored
\* attendance for that session is present or late: no row is written for a
\* player whose stored attendance is excused or absent
ResultsOnlyForAttending ==
    [][ui'.op = "save_results" =>
        \A r \in db'.drill_results \ db.drill_results :
            ~\E a \in db.attendance :
                /\ a.session_id = r.session_id
                /\ a.player_id = r.player_id
                /\ a.status \in {"excused", "absent"}]_vars

\* C10: every drill_results row references a player, a drill and a session
\* that exist: a delete removes the dependent result rows or is blocked by them.
NoOrphanedResults ==
    \A r \in db.drill_results :
        /\ r.player_id \in PlayerIds(db)
        /\ r.drill_id \in DrillIds(db)
        /\ r.session_id \in SessionIds(db)

\* a delete was blocked by a result row, which is still stored
NoOrphanedResultsWitness ==
    /\ ui.op \in {"save_players", "save_drills", "delete_session"}
    /\ ~ui.ok
    /\ db.drill_results # {}

\* C3: session_drills never holds two rows with the same (session, drill)
\* pair and attendance never holds two rows with the same (session, player)
\* pair, and a submission for a pair that is already stored overwrites the
\* stored row: after it the table holds the submitted values.
NoDuplicateKeys(d) ==
    /\ \A r, q \in d.session_drills :
            SessionDrillKey(r) = SessionDrillKey(q) => r = q
    /\ \A r, q \in d.attendance :
            AttendanceKey(r) = AttendanceKey(q) => r = q
UpsertOverwritesInPlace ==
    [][/\ NoDuplicateKeys(db')
       /\ (ui'.op = "add_to_flow" /\ ui'.ok) => ui'.arg \subseteq db'.session_drills
       /\ (ui'.op = "update_attendance" /\ ui'.ok) => ui'.arg \subseteq db'.attendance]_vars

\* a drill was added to a flow that already held it with another sequence
\* number, an attendance row is stored, and the flow holds the new row alone
UpsertOverwritesInPlaceWitness ==
    /\ ui.op = "add_to_flow"
    /\ ui.ok
    /\ ui.replaced
    /\ ui.arg \subseteq db.session_drills
    /\ db.attendance # {}
    /\ \A r \in db.session_drills, a \in ui.arg :
            SessionDrillKey(r) = SessionDrillKey(a) => r = a

\* C8: every place that derives a success rate (result-entry table, KPI card,
\* radar, trend, team bar) yields undefined/null, never 0 and never an error,
\* when the total it divides by is 0.
RateUndefinedOnZeroTotal ==
    ui.op \in {"result_table", "kpi", "radar", "trend", "team_bar"} =>
        \A cell \in ui.arg : cell.total = 0 => cell.rate = Null

\* C12: the batch generator inserts exactly one session row for each date d
\* with b_s <= d <= b_e whose weekday is chosen, each with the chosen phase,
\* reports the number of inserted rows, and inserts nothing when b_s > b_e or
\* no weekday is chosen; it changes nothing else.
BatchInsertsChosenDays ==
    [][ui'.op = "batch" =>
        \A in \in ui'.arg :
            LET new == db'.sessions \ db.sessions
                chosen == {x \in in.b_s..in.b_e : Weekday(x) \in in.b_d}
            IN  /\ ui'.ok
                /\ db.sessions \subseteq db'.sessions
                /\ [db' EXCEPT !.sessions = db.sessions] = db
                /\ \A x \in chosen :
                        Cardinality({s \in new : s.session_date = x}) = 1
                /\ \A s \in new : s.session_date \in chosen /\ s.phase = in.b_p
                /\ ui'.rows = Cardinality(new)
                /\ (in.b_s > in.b_e \/ in.b_d = {}) => new = {}]_vars

\* a batch over three days, one of them not chosen, added two sessions
BatchInsertsChosenDaysWitness ==
    /\ ui.op = "batch"
    /\ ui.rows = 2
    /\ Cardinality(db.sessions) = 2
    /\ \E in \in ui.arg : in.b_e - in.b_s = 2 /\ in.b_p = "peak"

\* C11: every statement issued through exec_one is its own atomic unit: when
\* a multi-statement save (players, drills, flow edits, attendance, batch) is
\* cut off by a crash, the store is the one after a prefix of the issued
\* statements, no statement is half applied, and the composite keys and the
\* foreign keys still hold.
ReferencesHold(d) ==
    /\ \A r \in d.session_drills :
            r.session_id \in SessionIds(d) /\ r.drill_id \in DrillIds(d)
    /\ \A r \in d.attendance :
            r.session_id \in SessionIds(d) /\ r.player_id \in PlayerIds(d)
    /\ \A r \in d.drill_results :
            /\ r.session_id \in SessionIds(d)
            /\ r.drill_id \in DrillIds(d)
            /\ r.player_id \in PlayerIds(d)
Blank(label) == label \in {"", " ", NULL}
ErrorRankingNormalizesBlank ==
    ui.op = "error_pie" =>
        /\ \A b \in ui.arg : ~Blank(b.label)
        /\ \A l \in {IF Blank(r.error_type) THEN "unfilled" ELSE r.error_type :
                        r \in db.drill_results} :
                \E b \in ui.arg :
                    /\ b.label = l
                    /\ b.count = Cardinality({r \in db.drill_results :
                            (IF Blank(r.error_type) THEN "unfilled"
                             ELSE r.error_type) = l})

\* C14: the trend of a player has one point per session date of the player's
\* results in the category: results of different dates, the same month/day of
\* different years included, are not merged; each point carries the rate and
\* the total attempts of its date, and the points are ordered by that date.
TrendKeepsPeriodsApart ==
    ui.op = "trend" =>
        LET mine == TrendRows(db, ui.sel[1], ui.sel[2])
        IN  /\ Cardinality(ui.arg) = Cardinality({DateOf(db, r) : r \in mine})
            /\ \A date \in {DateOf(db, r) : r \in mine} :
                LET g == {r \in mine : DateOf(db, r) = date}
                IN  \E b \in ui.arg :
                        /\ b.order = date
                        /\ b.total = SumT(g)
                        /\ SumT(g) > 0 => b.rate = Num(Round1(SumS(g), SumT(g)))

\* C15: the drill save validates before writing: when a submitted row has a
\* name that is empty after trimming, the submission is rejected and nothing
\* is written, and no save leaves a drills row with such a name that it
\* inserted or updated.  (ui'.sel holds the name column of the submitted
\* editor tables; the neuromuscular load is a select box over 1..5, so a
\* submitted row cannot carry a load outside 1..5.)
DrillSaveValidates ==
    [][ui'.op = "save_drills" =>
        /\ (\E key \in DOMAIN ui'.sel : \E i \in 1..Len(ui'.sel[key]) :
                Trim(ui'.sel[key][i]) = "")
                    => db'.drills = db.drills
        /\ \A x \in db'.drills :
                Trim(x.drill_name) = "" => x \in db.drills]_vars

\* C17: saving the flow edits of session s leaves the session_drills rows of
\* every other session unchanged, and every row kept in the editor is stored
\* again for s under the drill id it had before the save, with the sequence
\* number and minutes of the editor.  (ui'.sel holds s, ui'.arg the editor
\* rows with the drill of the stored row each one shows.)
FlowSaveKeepsDrillIds ==
    [][ui'.op = "save_flow" =>
        /\ {r \in db'.session_drills : r.session_id # ui'.sel[1]}
                = {r \in db.session_drills : r.session_id # ui'.sel[1]}
        /\ \A row \in ui'.arg :
                row.did # 0 =>
                    [session_id |-> ui'.sel[1], drill_id |-> row.did,
                     sequence_no |-> row.seq, planned_minutes |-> row.mins]
                        \in db'.session_drills]_vars

====
